---------------------------- MODULE Spec2Model ----------------------------
(***************************************************************************)
(* Model of the wake-and-focus reconciler: scripts/wake_focus_sync.py      *)
(* (historical range) and wake_focus_sync.py (single day).                 *)
(*                                                                         *)
(* The remote goal "wakeandfocus" is a list of datapoints in listing       *)
(* order.  A run fetches the list once, then issues create / delete /      *)
(* update calls one after the other; every call is one step, so that a     *)
(* run can abort after any prefix of its calls.                            *)
(*                                                                         *)
(* Daystamps are the integers 1..NumDays (Today = NumDays); numeric        *)
(* datapoint values are counted in tenths (10 is 1.0); an absent field     *)
(* (Python None or a missing key) is None, an absent text is <<>>.         *)
(***************************************************************************)
EXTENDS Integers, Sequences, FiniteSets, TLC

VARIABLES
    remote,        \* the wakeandfocus datapoints on the remote, listing order
    seen,          \* idempotency tokens the remote has accepted
    nextId,        \* the next identifier the remote hands out
    added,         \* per daystamp: datapoints the remote added on a create
    AUTH_TOKEN,    \* env BM_AUTH_TOKEN is set (TRUE) or missing (FALSE)
    DRY_RUN,       \* env DRY_RUN == "1"
    STRICT_PURGE,  \* env STRICT_PURGE == "1"
    script,        \* "history" (scripts/wake_focus_sync.py) or "single"
    sot_map,       \* daystamp -> 0/1, the SoT mapping of every run
    pc,            \* "idle", "calls", "done", "failed"
    wf_all,        \* the datapoints the current run fetched
    calls,         \* the calls the current run makes if none fails
    ip,            \* number of calls of the current run already made
    gets,          \* GET requests (pages) of the current run that went out
    sent,          \* requests of the current run that went to the remote
    resp,          \* the remote's answer to the last request
    runs,          \* runs started
    prev,          \* how the previous run ended: "none", "done", "failed"
    fm_all,        \* focusmate session records (compute_sot_for_range input)
    sot_out,       \* result of compute_sot_for_range, None before the call
    qt_in,         \* <<hour, minute>> given to qualifies_time
    qt_out,        \* its result
    FULL_HISTORY,  \* env FULL_HISTORY == "1"
    store,         \* SoT table "records" as committed: daystamp -> row
    txn,           \* the table as the connection sees it inside its transaction
    up_map,        \* the mapping given to sot_upsert_bulk
    up_todo,       \* its items not yet executed, in iteration order
    up_pc,         \* sot_upsert_bulk: "idle", "loop", "returned", "raised"
    goal_dps,      \* the records of the goal being fetched, newest first
    page,          \* fetch_all_datapoints: the page to request next
    results,       \* fetch_all_datapoints: the records collected so far
    requested,     \* the page numbers requested so far, in order
    batch,         \* the page received last
    pg_pc,         \* fetch_all_datapoints: "idle", "loop", "returned", "raised"
    procs          \* two runs at once: process -> its pc, wf_all, calls, ip

vars == <<remote, seen, nextId, added, AUTH_TOKEN, DRY_RUN, STRICT_PURGE, script,
          sot_map, pc, wf_all, calls, ip, gets, sent, resp, runs, prev,
          fm_all, sot_out, qt_in, qt_out, FULL_HISTORY,
          store, txn, up_map, up_todo, up_pc,
          goal_dps, page, results, requested, batch, pg_pc, procs>>

reconVars == <<remote, seen, nextId, added, AUTH_TOKEN, DRY_RUN, STRICT_PURGE, script,
               sot_map, pc, wf_all, calls, ip, gets, sent, resp, runs, prev>>

sotVars == <<fm_all, sot_out, qt_in, qt_out, FULL_HISTORY>>

storeVars == <<store, txn, up_map, up_todo, up_pc>>

pageVars == <<goal_dps, page, results, requested, batch, pg_pc>>

pairVars == <<procs>>

(***************************************************************************)
(* Bounds of the model.                                                    *)
(***************************************************************************)
NumDays == 2
MaxDps == 3
MaxKey == 3
MaxRuns == 2
MaxFm == 2

(***************************************************************************)
(* Program constants.                                                      *)
(***************************************************************************)
None == -1
MIN_SESSION_MINUTES == 50
CUTOFF_HOUR == 9
CUTOFF_MINUTE == 15
WAKEANDFOCUS_GOAL == "wakeandfocus"

Days == 1..NumDays
Today == NumDays
\* The remote stamps a created or updated datapoint with the current time,
\* which is later than every time of the initial collection.
Now == MaxKey + 1


(***************************************************************************)
(* Pure helpers.                                                           *)
(***************************************************************************)
\* int(round(float(v))) for a value v >= 0 in tenths: Python 3 rounds a half
\* to the even neighbour.
PyRound(v) ==
    LET q == v \div 10
        r == v % 10
    IN  IF r < 5 THEN q
        ELSE IF r > 5 THEN q + 1
        ELSE IF q % 2 = 0 THEN q ELSE q + 1

\* An integer as the remote stores it (tenths).
Stored(n) == n * 10

\* f"Auto: SoT={int(sot_val)} for {ds} (>=50m by 09:15 check)."
CommentOk(sot_val, ds) ==
    <<"Auto: SoT=", sot_val, " for ", ds, " (>=50m by 09:15 check).">>

\* Mutant of ReqId: a token that also depends on the run.
ReqIdPerRun(goal, ds) == <<goal, "-", ds, "-sot-v", runs>>

\* Mutant of ReqId: the token is empty, and add_datapoint sends none.
ReqIdNone(goal, ds) == <<>>

\* f"{WAKEANDFOCUS_GOAL}-{ds}-sot-v1"
ReqId(goal, ds) == <<goal, "-", ds, "-sot-v1">>

\* daystamp_of(datetime.fromtimestamp(ts), LOCAL_TZ): the local day a
\* timestamp falls on; timestamps count ticks from the start of day 1.
TicksPerDay == 2
daystamp_of(ts) == (ts \div TicksPerDay) + 1
\* The timestamp the remote gives a datapoint entered for day d.
TsOfDay(d) == (d - 1) * TicksPerDay

\* The day a fetched datapoint is bucketed under: its daystamp, else the day
\* of its timestamp, else none (the datapoint is skipped).
DayOf(dp) ==
    IF dp.daystamp # None THEN dp.daystamp
    ELSE IF dp.timestamp = None THEN None
    ELSE daystamp_of(dp.timestamp)

\* An updated_at that is no string, or a string datetime.fromisoformat
\* rejects.
Unparseable == -2

\* _dp_updated_key: updated_at when it is a parseable string (kept here as
\* the time it denotes), else the numeric timestamp, else 0.
_dp_updated_key(dp) ==
    IF dp.updated_at # None /\ dp.updated_at # Unparseable THEN dp.updated_at
    ELSE IF dp.timestamp # None THEN dp.timestamp
    ELSE 0

\* A <<key, datapoint>> pair placed into a list already sorted newest first,
\* behind every pair whose key is at least its own.
RECURSIVE InsertNewest(_, _)
InsertNewest(x, s) ==
    IF s = <<>> THEN <<x>>
    ELSE IF Head(s)[1] >= x[1] THEN <<Head(s)>> \o InsertNewest(x, Tail(s))
    ELSE <<x>> \o s

\* sorted(..., reverse=True) on <<key, datapoint>> pairs: stable, so equal
\* keys keep list order.
RECURSIVE SortNewest(_)
SortNewest(s) ==
    IF s = <<>> THEN <<>>
    ELSE InsertNewest(s[Len(s)], SortNewest(SubSeq(s, 1, Len(s) - 1)))

\* Mutant of SortedByUpdatedKey: reverse=True forgotten, oldest first.
SortedOldestFirst(dps) ==
    LET keyed == [i \in 1..Len(dps) |-> <<_dp_updated_key(dps[i]), dps[i]>>]
        srt == SortNewest(keyed)
    IN  [i \in 1..Len(dps) |-> srt[Len(dps) + 1 - i][2]]

\* Mutant of SortedByUpdatedKey: a sort that is not stable, equal keys come
\* out in reverse list order.
SortedTiesLast(dps) ==
    LET n == Len(dps)
        keyed == [i \in 1..n |-> <<_dp_updated_key(dps[n + 1 - i]), dps[n + 1 - i]>>]
        srt == SortNewest(keyed)
    IN  [i \in 1..n |-> srt[i][2]]

\* sorted(dps, key=_dp_updated_key, reverse=True)
SortedByUpdatedKey(dps) ==
    LET keyed == [i \in 1..Len(dps) |-> <<_dp_updated_key(dps[i]), dps[i]>>]
        srt == SortNewest(keyed)
    IN  [i \in 1..Len(dps) |-> srt[i][2]]

\* wf_by_day[ds]: the fetched datapoints of day ds, in fetch order.
ByDay(dps, ds) == SelectSeq(dps, LAMBDA dp : DayOf(dp) = ds)

RECURSIVE Concat(_)
Concat(ss) == IF ss = <<>> THEN <<>> ELSE Head(ss) \o Concat(Tail(ss))

\* The calls a run makes, as records; fields a call does not carry are None
\* (or <<>> for a text).
CreateCall(value, comment, ds, reqid) ==
    [op |-> "create", id |-> None, value |-> value, comment |-> comment,
     daystamp |-> ds, requestid |-> reqid]
DeleteCall(dp_id) ==
    [op |-> "delete", id |-> dp_id, value |-> None, comment |-> <<>>,
     daystamp |-> None, requestid |-> <<>>]
\* Mutant of UpdateCall: the update carries the value and leaves the comment
\* out.
UpdateCallValueOnly(dp_id, value, comment, ds) ==
    [op |-> "update", id |-> dp_id, value |-> value, comment |-> <<>>,
     daystamp |-> ds, requestid |-> <<>>]

UpdateCall(dp_id, value, comment, ds) ==
    [op |-> "update", id |-> dp_id, value |-> value, comment |-> comment,
     daystamp |-> ds, requestid |-> <<>>]
\* dp["id"] on a datapoint without the key: KeyError, no request is made.
RaiseCall ==
    [op |-> "raise", id |-> None, value |-> None, comment |-> <<>>,
     daystamp |-> None, requestid |-> <<>>]

\* float(keeper.get("value", 0))
KeeperValue(dp) == IF dp.value = None THEN 0 ELSE dp.value


(***************************************************************************)
(* reconcile_history: the calls of one run, computed from the fetched list *)
(* and the SoT mapping.  The code decides every call from wf_all and       *)
(* sot_map alone: a response only lets the run go on or aborts it.         *)
(***************************************************************************)
\* Mutant of Extras: existing[2:], one duplicate is left alone.
ExtrasSkipOne(existing) ==
    IF Len(existing) <= 2 THEN <<>> ELSE SubSeq(existing, 3, Len(existing))

\* Mutant of Extras: existing[0:], the keeper is deleted with the extras.
ExtrasAll(existing) == existing

\* extras = existing[1:]
Extras(existing) == Tail(existing)

\* Mutant of NeedsUpdate: the comment is not compared.
NeedsUpdateValueOnly(keeper, sot_val, comment_ok) ==
    PyRound(KeeperValue(keeper)) # sot_val

\* needs_value or needs_comment
NeedsUpdate(keeper, sot_val, comment_ok) ==
    LET needs_value == PyRound(KeeperValue(keeper)) # sot_val
        needs_comment == keeper.comment # comment_ok
    IN  needs_value \/ needs_comment

\* One iteration of "for ds, sot_val in sorted(sot_map.items())".
DayCalls(wf, ds, sot_val) ==
    LET comment_ok == CommentOk(sot_val, ds)
        existing == SortedByUpdatedKey(ByDay(wf, ds))
    IN  IF existing = <<>>
        THEN <<CreateCall(Stored(sot_val), comment_ok, ds, ReqId(WAKEANDFOCUS_GOAL, ds))>>
        ELSE LET keeper == existing[1]
                 extras == Extras(existing)
                 withId == SelectSeq(extras, LAMBDA dp : dp.id # None)
             IN  [i \in 1..Len(withId) |-> DeleteCall(withId[i].id)]
                 \o (IF NeedsUpdate(keeper, sot_val, comment_ok) /\ keeper.id # None
                     THEN <<UpdateCall(keeper.id, Stored(sot_val), comment_ok, ds)>>
                     ELSE <<>>)

\* The elements of a set of days in ascending order.
RECURSIVE SortedDays(_)
SortedDays(S) ==
    IF S = {} THEN <<>>
    ELSE LET m == CHOOSE x \in S : \A y \in S : x <= y
         IN  <<m>> \o SortedDays(S \ {m})

\* The keys of wf_by_day in insertion order: the days of the fetched
\* datapoints, each at its first occurrence.
RECURSIVE DaysInOrder(_)
DaysInOrder(dps) ==
    IF dps = <<>> THEN <<>>
    ELSE LET rest == DaysInOrder(SubSeq(dps, 1, Len(dps) - 1))
             d == DayOf(dps[Len(dps)])
         IN  IF d = None \/ \E i \in 1..Len(rest) : rest[i] = d
             THEN rest ELSE Append(rest, d)

\* Mutant of PurgeCalls: the test "ds not in sot_days" is missing.
PurgeCallsAllDays(wf, sot) ==
    LET ds == DaysInOrder(wf)
        OfDay(d) == LET withId == SelectSeq(ByDay(wf, d), LAMBDA dp : dp.id # None)
                    IN  [i \in 1..Len(withId) |-> DeleteCall(withId[i].id)]
    IN  Concat([i \in 1..Len(ds) |-> OfDay(ds[i])])

\* Step 2, run when STRICT_PURGE is set: delete the datapoints of the days
\* that are not in sot_map.
PurgeCalls(wf, sot) ==
    LET ds == SelectSeq(DaysInOrder(wf), LAMBDA d : d \notin DOMAIN sot)
        OfDay(d) == LET withId == SelectSeq(ByDay(wf, d), LAMBDA dp : dp.id # None)
                    IN  [i \in 1..Len(withId) |-> DeleteCall(withId[i].id)]
    IN  Concat([i \in 1..Len(ds) |-> OfDay(ds[i])])

ScopeCalls(wf, sot) ==
    LET ds == SortedDays(DOMAIN sot)
    IN  Concat([i \in 1..Len(ds) |-> DayCalls(wf, ds[i], sot[ds[i]])])

\* Mutant of reconcile_history: the purge step runs whatever STRICT_PURGE
\* says.
reconcile_historyPurgeAlways(wf, sot, purge) ==
    ScopeCalls(wf, sot) \o PurgeCalls(wf, sot)

reconcile_history(wf, sot, purge) ==
    ScopeCalls(wf, sot) \o (IF purge THEN PurgeCalls(wf, sot) ELSE <<>>)

(***************************************************************************)
(* reconcile_beeminder_with_sot (single-day script).                       *)
(***************************************************************************)
\* The sort key "updated_at or timestamp or 0".
SingleKey(dp) ==
    IF dp.updated_at # None THEN dp.updated_at
    ELSE IF dp.timestamp # None /\ dp.timestamp # 0 THEN dp.timestamp
    ELSE 0

\* updated_at is a string and timestamp a number: sorting a list whose keys
\* mix the two raises TypeError.
MixedKeys(dps) ==
    /\ \E i \in 1..Len(dps) : dps[i].updated_at # None
    /\ \E i \in 1..Len(dps) : dps[i].updated_at = None

SortedBySingleKey(dps) ==
    LET keyed == [i \in 1..Len(dps) |-> <<SingleKey(dps[i]), dps[i]>>]
        srt == SortNewest(keyed)
    IN  [i \in 1..Len(dps) |-> srt[i][2]]

\* The calls up to and including the first one that raises.
RECURSIVE UntilRaise(_)
UntilRaise(cs) ==
    IF cs = <<>> THEN <<>>
    ELSE IF Head(cs).op = "raise" THEN <<Head(cs)>>
    ELSE <<Head(cs)>> \o UntilRaise(Tail(cs))

reconcile_beeminder_with_sot(dps, daystamp, sot_value) ==
    LET todays == SelectSeq(dps, LAMBDA dp : dp.daystamp = daystamp)
        comment_ok == CommentOk(sot_value, daystamp)
    IN  IF MixedKeys(todays) THEN <<RaiseCall>>
        ELSE IF todays = <<>>
        THEN <<CreateCall(Stored(sot_value), comment_ok, None,
                          ReqId(WAKEANDFOCUS_GOAL, daystamp))>>
        ELSE LET srt == SortedBySingleKey(todays)
                 keeper == srt[1]
                 extras == Tail(srt)
                 differs == IF PyRound(KeeperValue(keeper)) # sot_value THEN TRUE
                            ELSE keeper.comment # comment_ok
             IN  UntilRaise(
                    [i \in 1..Len(extras) |->
                        IF extras[i].id = None THEN RaiseCall
                        ELSE DeleteCall(extras[i].id)]
                    \o (IF ~differs THEN <<>>
                        ELSE IF keeper.id = None THEN <<RaiseCall>>
                        ELSE <<UpdateCall(keeper.id, Stored(sot_value), comment_ok, None)>>))


(***************************************************************************)
(* The remote feed (Beeminder API), as the run's calls see it.             *)
(***************************************************************************)
per_page == 100

\* fetch_all_datapoints: every page until a short or empty one; for a list
\* that does not change during the fetch this is the whole list.
fetch_all_datapoints(dps) == IF DRY_RUN THEN <<>> ELSE dps

\* get_datapoints_for_goal (single-day script): one request, the first page.
get_datapoints_for_goal(dps) ==
    IF DRY_RUN THEN <<>>
    ELSE SubSeq(dps, 1, IF Len(dps) < per_page THEN Len(dps) ELSE per_page)

\* The datapoint a create adds; without a daystamp the remote files it under
\* the current day.
NewDp(c) ==
    LET d == IF c.daystamp = None THEN Today ELSE c.daystamp
    IN  [id |-> nextId, daystamp |-> d, value |-> c.value, comment |-> c.comment,
         updated_at |-> Now, timestamp |-> TsOfDay(d)]

\* Mutant of add_datapoint: the DRY_RUN test is missing.
add_datapointAlways(c) == <<NewDp(c)>> \o remote

\* add_datapoint: a no-op under DRY_RUN, else the POST; new datapoints list
\* first (sort descending).
add_datapoint(c) == IF DRY_RUN THEN remote ELSE <<NewDp(c)>> \o remote

\* update_datapoint: a no-op under DRY_RUN, else the PUT.
update_datapoint(c) ==
    IF DRY_RUN THEN remote
    ELSE [i \in 1..Len(remote) |->
            IF remote[i].id # c.id THEN remote[i]
            ELSE [remote[i] EXCEPT !.value = c.value, !.comment = c.comment,
                                   !.daystamp = IF c.daystamp = None THEN @ ELSE c.daystamp,
                                   !.updated_at = Now]]

\* delete_datapoint: a no-op under DRY_RUN, else the DELETE.
delete_datapoint(c) ==
    IF DRY_RUN THEN remote ELSE SelectSeq(remote, LAMBDA dp : dp.id # c.id)

(***************************************************************************)
(* One run: main() of either script from the fetch of the target goal on.  *)
(***************************************************************************)
\* The calls of a run that fetched wf.
Reconcile(wf) ==
    IF script = "history" THEN reconcile_history(wf, sot_map, STRICT_PURGE)
    ELSE reconcile_beeminder_with_sot(wf, Today, sot_map[Today])

HasCall == pc = "calls" /\ ip < Len(calls)
NextCall == calls[ip + 1]

\* Mutant of _need_auth: the credential is never asked for.
_need_authNever == FALSE

\* _need_auth raises: "if not AUTH_TOKEN and not DRY_RUN"; the single-day
\* script makes the same test at the top of get_datapoints_for_goal.
_need_auth == ~AUTH_TOKEN /\ ~DRY_RUN

\* The GET requests fetch_all_datapoints sends for a list that holds still:
\* the full pages and the short or empty page that ends the loop.
PagesOf(dps) == Len(dps) \div per_page + 1

\* A run starts (a new process), and its fetch of the target goal succeeds:
\* what this does to the run and the remote.
FetchStep ==
    /\ pc \in {"idle", "done", "failed"}
    /\ runs < MaxRuns
    /\ ~_need_auth
    /\ runs' = runs + 1
    /\ prev' = IF pc = "idle" THEN "none" ELSE pc
    /\ wf_all' = IF script = "history" THEN fetch_all_datapoints(remote)
                 ELSE get_datapoints_for_goal(remote)
    /\ calls' = Reconcile(wf_all')
    /\ pc' = "calls"
    /\ ip' = 0
    /\ gets' = IF DRY_RUN THEN 0
               ELSE IF script = "history" THEN PagesOf(remote) ELSE 1
    /\ sent' = <<>>
    /\ resp' = IF DRY_RUN THEN "none" ELSE "ok"
    /\ UNCHANGED <<remote, seen, nextId, added, AUTH_TOKEN, DRY_RUN, STRICT_PURGE, script, sot_map>>

\* A run starts (a new process), and its fetch of the target goal succeeds.
Fetch ==
    /\ FetchStep
    /\ UNCHANGED <<sotVars, storeVars, pageVars, pairVars>>

\* A run starts and its fetch gets a non-success response: the run aborts;
\* what this does to the run and the remote.
FetchFailStep ==
    /\ pc \in {"idle", "done", "failed"}
    /\ runs < MaxRuns
    /\ ~_need_auth
    /\ ~DRY_RUN
    /\ runs' = runs + 1
    /\ prev' = IF pc = "idle" THEN "none" ELSE pc
    /\ wf_all' = <<>>
    /\ calls' = <<>>
    /\ pc' = "failed"
    /\ ip' = 0
    /\ \E failing \in 1..(IF script = "history" THEN PagesOf(remote) ELSE 1) :
          gets' = failing
    /\ sent' = <<>>
    /\ resp' = "error"
    /\ UNCHANGED <<remote, seen, nextId, added, AUTH_TOKEN, DRY_RUN, STRICT_PURGE, script, sot_map>>

\* A run starts and its fetch gets a non-success response: the run aborts.
FetchFail ==
    /\ FetchFailStep
    /\ UNCHANGED <<sotVars, storeVars, pageVars, pairVars>>

\* A run starts without the credential and without DRY_RUN: the first fetch
\* of main raises in _need_auth before its request, main exits 1.
ConfigError ==
    /\ pc \in {"idle", "done", "failed"}
    /\ runs < MaxRuns
    /\ _need_auth
    /\ runs' = runs + 1
    /\ prev' = IF pc = "idle" THEN "none" ELSE pc
    /\ wf_all' = <<>>
    /\ calls' = <<>>
    /\ pc' = "failed"
    /\ ip' = 0
    /\ gets' = 0
    /\ sent' = <<>>
    /\ resp' = "none"
    /\ UNCHANGED <<remote, seen, nextId, added, AUTH_TOKEN, DRY_RUN, STRICT_PURGE, script, sot_map>>
    /\ UNCHANGED <<sotVars, storeVars, pageVars, pairVars>>

\* add_datapoint returns: the POST succeeded, or DRY_RUN made it a no-op.
CallCreate ==
    /\ HasCall
    /\ NextCall.op = "create"
    /\ DRY_RUN \/ NextCall.requestid \notin seen
    /\ remote' = add_datapoint(NextCall)
    /\ seen' = IF DRY_RUN THEN seen ELSE seen \cup {NextCall.requestid}
    /\ nextId' = IF DRY_RUN THEN nextId ELSE nextId + 1
    /\ added' = IF DRY_RUN THEN added
                ELSE LET d == NewDp(NextCall).daystamp
                     IN  [added EXCEPT ![d] = @ + 1]
    /\ sent' = IF DRY_RUN THEN sent ELSE Append(sent, NextCall)
    /\ resp' = IF DRY_RUN THEN resp ELSE "ok"
    /\ ip' = ip + 1
    /\ UNCHANGED <<AUTH_TOKEN, DRY_RUN, STRICT_PURGE, script, sot_map, pc, wf_all, calls,
                   gets, runs, prev>>
    /\ UNCHANGED <<sotVars, storeVars, pageVars, pairVars>>

\* delete_datapoint returns.
CallDelete ==
    /\ HasCall
    /\ NextCall.op = "delete"
    /\ DRY_RUN \/ \E i \in 1..Len(remote) : remote[i].id = NextCall.id
    /\ remote' = delete_datapoint(NextCall)
    /\ sent' = IF DRY_RUN THEN sent ELSE Append(sent, NextCall)
    /\ resp' = IF DRY_RUN THEN resp ELSE "ok"
    /\ ip' = ip + 1
    /\ UNCHANGED <<seen, nextId, added, AUTH_TOKEN, DRY_RUN, STRICT_PURGE, script,
                   sot_map, pc, wf_all, calls, gets, runs, prev>>
    /\ UNCHANGED <<sotVars, storeVars, pageVars, pairVars>>

\* update_datapoint returns.
CallUpdate ==
    /\ HasCall
    /\ NextCall.op = "update"
    /\ DRY_RUN \/ \E i \in 1..Len(remote) : remote[i].id = NextCall.id
    /\ remote' = update_datapoint(NextCall)
    /\ sent' = IF DRY_RUN THEN sent ELSE Append(sent, NextCall)
    /\ resp' = IF DRY_RUN THEN resp ELSE "ok"
    /\ ip' = ip + 1
    /\ UNCHANGED <<seen, nextId, added, AUTH_TOKEN, DRY_RUN, STRICT_PURGE, script,
                   sot_map, pc, wf_all, calls, gets, runs, prev>>
    /\ UNCHANGED <<sotVars, storeVars, pageVars, pairVars>>

\* Mutant of CallFail: the error is swallowed and the run goes on with its
\* next call.
CallFailGoesOn ==
    /\ HasCall
    /\ ~DRY_RUN
    /\ NextCall.op \in {"create", "update", "delete"}
    /\ sent' = Append(sent, NextCall)
    /\ resp' = "error"
    /\ ip' = ip + 1
    /\ UNCHANGED <<remote, seen, nextId, added, AUTH_TOKEN, DRY_RUN, STRICT_PURGE,
                   script, sot_map, pc, wf_all, calls, gets, runs, prev>>
    /\ UNCHANGED <<sotVars, storeVars, pageVars, pairVars>>

\* The remote answers a create, update or delete with a non-success status
\* that is no duplicate rejection: raise_for_status raises, main exits 1.
CallFail ==
    /\ HasCall
    /\ ~DRY_RUN
    /\ NextCall.op \in {"create", "update", "delete"}
    /\ sent' = Append(sent, NextCall)
    /\ resp' = "error"
    /\ pc' = "failed"
    /\ UNCHANGED <<remote, seen, nextId, added, AUTH_TOKEN, DRY_RUN, STRICT_PURGE,
                   script, sot_map, wf_all, calls, ip, gets, runs, prev>>
    /\ UNCHANGED <<sotVars, storeVars, pageVars, pairVars>>

\* The remote rejects a create whose idempotency token it has seen (422
\* "Duplicate request"): raise_for_status raises HTTPError, add_datapoint
\* turns it into RuntimeError, main exits 1.
CallCreateDuplicate ==
    /\ HasCall
    /\ ~DRY_RUN
    /\ NextCall.op = "create"
    /\ NextCall.requestid \in seen
    /\ sent' = Append(sent, NextCall)
    /\ resp' = "duplicate"
    /\ pc' = "failed"
    /\ UNCHANGED <<remote, seen, nextId, added, AUTH_TOKEN, DRY_RUN, STRICT_PURGE,
                   script, sot_map, wf_all, calls, ip, gets, runs, prev>>
    /\ UNCHANGED <<sotVars, storeVars, pageVars, pairVars>>

\* The single-day script raises before a request (KeyError on dp["id"],
\* TypeError in the sort): main exits 1.
CallRaise ==
    /\ HasCall
    /\ NextCall.op = "raise"
    /\ pc' = "failed"
    /\ UNCHANGED <<remote, seen, nextId, added, AUTH_TOKEN, DRY_RUN, STRICT_PURGE,
                   script, sot_map, wf_all, calls, ip, gets, sent, resp, runs, prev>>
    /\ UNCHANGED <<sotVars, storeVars, pageVars, pairVars>>

\* The reconciler returns and main ends with exit status 0.
Finish ==
    /\ pc = "calls"
    /\ ip = Len(calls)
    /\ pc' = "done"
    /\ UNCHANGED <<remote, seen, nextId, added, AUTH_TOKEN, DRY_RUN, STRICT_PURGE,
                   script, sot_map, wf_all, calls, ip, gets, sent, resp, runs, prev>>
    /\ UNCHANGED <<sotVars, storeVars, pageVars, pairVars>>

\* Outside the program: the user removes a datapoint on the site between
\* two runs.
ExternalDelete ==
    /\ pc \in {"done", "failed"}
    /\ \E i \in 1..Len(remote) :
          remote' = SelectSeq(remote, LAMBDA dp : dp # remote[i])
    /\ UNCHANGED <<seen, nextId, added, AUTH_TOKEN, DRY_RUN, STRICT_PURGE, script,
                   sot_map, pc, wf_all, calls, ip, gets, sent, resp, runs, prev>>
    /\ UNCHANGED <<sotVars, storeVars, pageVars, pairVars>>

(***************************************************************************)
(* Initial states.                                                         *)
(***************************************************************************)
\* The datapoints the i-th place of the initial list can hold, on any day.
\* With identifier i and any update time: converged on 0, or 1 without a
\* comment.  And the irregular ones: a value of one half under the comment
\* of 0 (it rounds to 0), a datapoint without an identifier, a datapoint
\* without an update time.
InitDps(i) ==
    UNION { { [id |-> i, daystamp |-> d, value |-> vc[1], comment |-> vc[2],
               updated_at |-> u, timestamp |-> TsOfDay(d)] :
                 vc \in {<<0, CommentOk(0, d)>>, <<10, <<>>>>}, u \in 1..MaxKey }
            \cup
            { [id |-> i, daystamp |-> d, value |-> 5, comment |-> CommentOk(0, d),
               updated_at |-> MaxKey, timestamp |-> TsOfDay(d)],
              [id |-> None, daystamp |-> d, value |-> 10, comment |-> <<>>,
               updated_at |-> MaxKey - 1, timestamp |-> TsOfDay(d)],
              [id |-> i, daystamp |-> d, value |-> 0, comment |-> CommentOk(0, d),
               updated_at |-> None, timestamp |-> TsOfDay(d)] }
          : d \in Days }

\* The initial lists of n datapoints.
RECURSIVE RemotesOfLen(_)
RemotesOfLen(n) ==
    IF n = 0 THEN {<<>>}
    ELSE {Append(r, dp) : r \in RemotesOfLen(n - 1), dp \in InitDps(n)}

InitRemotes == UNION {RemotesOfLen(n) : n \in 0..MaxDps}

\* The SoT mapping covers a range of days that ends today.
SotMaps == UNION { [s..Today -> {0, 1}] : s \in Days }

InitRecon ==
    /\ remote \in InitRemotes
    /\ seen = {}
    /\ nextId = MaxDps + 1
    /\ added = [d \in Days |-> 0]
    /\ AUTH_TOKEN \in BOOLEAN
    /\ DRY_RUN \in BOOLEAN
    /\ STRICT_PURGE \in BOOLEAN
    /\ script \in {"history", "single"}
    /\ script = "single" => ~STRICT_PURGE
    /\ sot_map \in SotMaps
    /\ script = "single" => DOMAIN sot_map = {Today}
    /\ pc = "idle"
    /\ wf_all = <<>>
    /\ calls = <<>>
    /\ ip = 0
    /\ gets = 0
    /\ sent = <<>>
    /\ resp = "none"
    /\ runs = 0
    /\ prev = "none"

SotIdle ==
    /\ fm_all = <<>>
    /\ sot_out = <<>>
    /\ qt_in = <<>>
    /\ qt_out = FALSE
    /\ FULL_HISTORY = FALSE

\* No call of sot_upsert_bulk under way, the table empty.
StoreIdle ==
    /\ store = <<>>
    /\ txn = <<>>
    /\ up_map = <<>>
    /\ up_todo = <<>>
    /\ up_pc = "idle"

\* No paginated fetch under way.
PageIdle ==
    /\ goal_dps = <<>>
    /\ page = 1
    /\ results = <<>>
    /\ requested = <<>>
    /\ batch = <<>>
    /\ pg_pc = "idle"

\* The two processes that run at once.
Procs == {1, 2}

\* Neither of them started.
PairIdle ==
    procs = [p \in Procs |-> [pc |-> "idle", wf_all |-> <<>>, calls |-> <<>>, ip |-> 0]]

Init == InitRecon /\ SotIdle /\ StoreIdle /\ PageIdle /\ PairIdle

Next ==
    \/ Fetch
    \/ FetchFail
    \/ ConfigError
    \/ CallCreate
    \/ CallDelete
    \/ CallUpdate
    \/ CallFail
    \/ CallRaise
    \/ Finish

Spec == Init /\ [][Next]_vars


(***************************************************************************)
(* The same runs, with the user deleting datapoints between them.          *)
(***************************************************************************)
MaxExtDps == 2

InitExt == Init /\ Len(remote) <= MaxExtDps

NextExt ==
    \/ Fetch
    \/ FetchFail
    \/ ConfigError
    \/ CallCreate
    \/ CallCreateDuplicate
    \/ CallDelete
    \/ CallUpdate
    \/ CallFail
    \/ CallRaise
    \/ Finish
    \/ ExternalDelete

SpecExt == InitExt /\ [][NextExt]_vars


(***************************************************************************)
(* The outcome of a day: comment parser, qualifies_time and                *)
(* compute_sot_for_range, applied to focusmate session records.            *)
(*                                                                         *)
(* A comment is the list of its tokens: <<m, "minutes session at", h, ":", *)
(* mi>> is the text COMMENT_RE matches with the three numbers m, h, mi;    *)
(* any other list is a text it does not match; <<>> is no comment.         *)
(***************************************************************************)
SessionComment(m, h, mi) == <<m, "minutes session at", h, ":", mi>>

\* parse_comment_for_length_and_time: <<minutes, hour, minute>>, or <<>> for
\* Python's None.
parse_comment_for_length_and_time(comment) ==
    IF Len(comment) # 5 THEN <<>>
    ELSE LET minutes == comment[1]
             hour == comment[3]
             minute == comment[5]
         IN  IF ~(0 <= hour /\ hour <= 23 /\ 0 <= minute /\ minute <= 59)
             THEN <<>>
             ELSE <<minutes, hour, minute>>

\* Mutant of qualifies_time: the minute is not compared.
qualifies_timeHourOnly(hour, minute) == hour <= CUTOFF_HOUR

qualifies_time(hour, minute) ==
    (hour < CUTOFF_HOUR) \/ (hour = CUTOFF_HOUR /\ minute <= CUTOFF_MINUTE)

\* The inner loop of compute_sot_for_range over the records of one day: 1 at
\* the first record that qualifies, else 0.
RECURSIVE DayOutcome(_)
DayOutcome(dps) ==
    IF dps = <<>> THEN 0
    ELSE LET parsed == parse_comment_for_length_and_time(Head(dps).comment)
         IN  IF parsed = <<>> THEN DayOutcome(Tail(dps))
             ELSE IF parsed[1] >= MIN_SESSION_MINUTES /\ qualifies_time(parsed[2], parsed[3])
                  THEN 1
                  ELSE DayOutcome(Tail(dps))

\* compute_sot_for_range(focusmate_dps, start_date, end_date)
compute_sot_for_range(focusmate_dps, start_date, end_date) ==
    [d \in start_date..end_date |-> DayOutcome(ByDay(focusmate_dps, d))]

\* compute_today_outcome (single-day script): the records whose daystamp is
\* today, from the first page of the focusmate goal.
compute_today_outcome(focusmate_dps) ==
    DayOutcome(SelectSeq(get_datapoints_for_goal(focusmate_dps),
                         LAMBDA dp : dp.daystamp = Today))

\* Session comments: a duration on either side of the minimum, a start time
\* around the cutoff or out of range; a text that is no session; no comment.
FmComments ==
    { SessionComment(m, hm[1], hm[2]) :
        m \in {MIN_SESSION_MINUTES - 1, MIN_SESSION_MINUTES},
        hm \in {<<5, 59>>, <<9, 15>>, <<9, 16>>, <<24, 0>>, <<8, 60>>} }
    \cup {<<"chat">>, <<>>}

\* Where a record sits in time: a daystamp with the timestamp of its day, a
\* daystamp with a timestamp that falls on the next local day (the goal's
\* day ends after midnight), a daystamp alone, a timestamp alone, neither.
FmStamps ==
    {<<d, TsOfDay(d)>> : d \in Days}
    \cup {<<d, TsOfDay(d + 1)>> : d \in Days \ {Today}}
    \cup {<<d, None>> : d \in Days}
    \cup {<<None, t>> : t \in 0..(NumDays * TicksPerDay - 1)}
    \cup {<<None, None>>}

FmRecords ==
    { [daystamp |-> st[1], timestamp |-> st[2], comment |-> c] :
        st \in FmStamps, c \in FmComments }

\* The times qualifies_time is asked about.
QtInputs == {<<5, 59>>, <<6, 0>>, <<8, 59>>, <<9, 0>>, <<9, 15>>, <<9, 16>>, <<10, 0>>}

ReconIdle ==
    /\ remote = <<>>
    /\ seen = {}
    /\ nextId = 1
    /\ added = [d \in Days |-> 0]
    /\ AUTH_TOKEN = TRUE
    /\ DRY_RUN = FALSE
    /\ STRICT_PURGE = FALSE
    /\ script \in {"history", "single"}
    /\ sot_map = [d \in Days |-> 0]
    /\ pc = "idle"
    /\ wf_all = <<>>
    /\ calls = <<>>
    /\ ip = 0
    /\ gets = 0
    /\ sent = <<>>
    /\ resp = "none"
    /\ runs = 0
    /\ prev = "none"

InitSot ==
    /\ PairIdle
    /\ ReconIdle
    /\ fm_all \in UNION {[1..n -> FmRecords] : n \in 0..MaxFm}
    /\ sot_out = <<>>
    /\ qt_in = <<>>
    /\ qt_out = FALSE
    /\ FULL_HISTORY \in BOOLEAN
    /\ StoreIdle
    /\ PageIdle

\* The least element of a set of numbers that is not empty.
Min(S) == CHOOSE x \in S : \A y \in S : x <= y

\* Mutant of FullHistoryStart: without a timestamp the range starts at the
\* first day there is.
FullHistoryStartFirstDay(fm, end_date) ==
    LET timestamps == {fm[i].timestamp : i \in {j \in 1..Len(fm) : fm[j].timestamp # None}}
    IN  IF timestamps # {} THEN daystamp_of(Min(timestamps)) ELSE 1

\* main, FULL_HISTORY: the local day of the least numeric timestamp of the
\* fetched records, or end_date when no record has one.
FullHistoryStart(fm, end_date) ==
    LET timestamps == {fm[i].timestamp : i \in {j \in 1..Len(fm) : fm[j].timestamp # None}}
    IN  IF timestamps # {} THEN daystamp_of(Min(timestamps)) ELSE end_date

\* main of the historical script computes the SoT mapping of a range of days
\* that ends today: from the earliest record on under FULL_HISTORY, else the
\* last HISTORY_DAYS days.
ComputeSot ==
    /\ script = "history"
    /\ sot_out = <<>>
    /\ \E start_date \in (IF FULL_HISTORY THEN {FullHistoryStart(fm_all, Today)} ELSE Days) :
          sot_out' = compute_sot_for_range(fm_all, start_date, Today)
    /\ UNCHANGED <<fm_all, qt_in, qt_out, FULL_HISTORY>>
    /\ UNCHANGED <<reconVars, storeVars, pageVars, pairVars>>

\* main of the single-day script computes today's outcome.
ComputeToday ==
    /\ script = "single"
    /\ sot_out = <<>>
    /\ sot_out' = [d \in {Today} |-> compute_today_outcome(fm_all)]
    /\ UNCHANGED <<fm_all, qt_in, qt_out, FULL_HISTORY>>
    /\ UNCHANGED <<reconVars, storeVars, pageVars, pairVars>>

\* A call of qualifies_time on its own, as the unit test makes it.
QualifiesTime ==
    /\ fm_all = <<>>
    /\ \E hm \in QtInputs :
          /\ qt_in' = hm
          /\ qt_out' = qualifies_time(hm[1], hm[2])
    /\ UNCHANGED <<fm_all, sot_out, FULL_HISTORY>>
    /\ UNCHANGED <<reconVars, storeVars, pageVars, pairVars>>

NextSot ==
    \/ ComputeSot
    \/ ComputeToday
    \/ QualifiesTime

SpecSot == InitSot /\ [][NextSot]_vars


(***************************************************************************)
(* Vocabulary of the properties.                                           *)
(***************************************************************************)
\* The canonical comment, as the specification words it.
CanonicalComment(v, ds) == <<"Auto: SoT=", v, " for ", ds, " (>=50m by 09:15 check).">>

\* A value in tenths rounds to the integer n (a half goes to the even side).
RoundsTo(v, n) ==
    LET diff == IF v >= 10 * n THEN v - 10 * n ELSE 10 * n - v
    IN  diff < 5 \/ (diff = 5 /\ n % 2 = 0)

\* The remote datapoints of day ds.
OnDay(ds) == SelectSeq(remote, LAMBDA dp : dp.daystamp = ds)

\* Exactly one datapoint per SoT day, with the SoT value and comment.
ConvergedExactly ==
    \A ds \in DOMAIN sot_map :
        /\ Len(OnDay(ds)) = 1
        /\ OnDay(ds)[1].value = 10 * sot_map[ds]
        /\ OnDay(ds)[1].comment = CanonicalComment(sot_map[ds], ds)

\* Exactly one datapoint per SoT day, whose value rounds to the SoT value
\* and whose comment is canonical.
ConvergedRounded ==
    \A ds \in DOMAIN sot_map :
        /\ Len(OnDay(ds)) = 1
        /\ RoundsTo(OnDay(ds)[1].value, sot_map[ds])
        /\ OnDay(ds)[1].comment = CanonicalComment(sot_map[ds], ds)

\* Every fetched datapoint of a SoT day carries an identifier.
ScopeIdentified ==
    \A i \in 1..Len(wf_all) :
        wf_all[i].daystamp \in DOMAIN sot_map => wf_all[i].id # None

\* The current run sent a request of kind op.
Sent(op) == \E i \in 1..Len(sent) : sent[i].op = op

\* How many requests of kind op the current run sent for identifier x.
SentFor(op, x) ==
    Cardinality({i \in 1..Len(sent) : sent[i].op = op /\ sent[i].id = x})

(***************************************************************************)
(* C1  Convergence.                                                        *)
(***************************************************************************)
\* C1 as stated: after a run of reconcile_history that completes, the remote
\* holds exactly one datapoint per SoT daystamp, whose value equals the SoT
\* value and whose comment is the canonical comment.
C1_AsStated ==
    (script = "history" /\ pc = "done") => ConvergedExactly

\* C1 amended: with dry-run off and every fetched datapoint of a SoT day
\* carrying an identifier, after a run of reconcile_history that completes
\* the remote holds exactly one datapoint per SoT daystamp, whose value
\* rounds to the SoT value and whose comment is the canonical comment.
C1_Convergence ==
    (script = "history" /\ pc = "done" /\ ~DRY_RUN /\ ScopeIdentified)
        => ConvergedRounded

\* A completed run that created, deleted and updated.
C1_Witness ==
    /\ script = "history" /\ pc = "done" /\ ~DRY_RUN /\ ScopeIdentified
    /\ Sent("create") /\ Sent("delete") /\ Sent("update")

(***************************************************************************)
(* C2  Idempotence.                                                        *)
(***************************************************************************)
\* C2: a run of reconcile_history that follows a completed run with the same
\* SoT mapping sends no create, update or delete, and outside dry-run has no
\* call to make at all.
C2_Idempotence ==
    (script = "history" /\ prev = "done")
        => (sent = <<>> /\ (~DRY_RUN => calls = <<>>))

\* The second of two completed runs, the first of which created today's
\* datapoint.
C2_Witness ==
    /\ script = "history" /\ prev = "done" /\ pc = "done" /\ ~DRY_RUN
    /\ added[Today] = 1
    /\ Len(wf_all) >= 2

(***************************************************************************)
(* C3  Duplicate collapse.                                                 *)
(***************************************************************************)
\* The fetched datapoints of day ds.
Fetched(ds) == SelectSeq(wf_all, LAMBDA dp : dp.daystamp = ds)

DistinctKeys(g) ==
    \A i, j \in 1..Len(g) : i # j => _dp_updated_key(g[i]) # _dp_updated_key(g[j])

\* The place of the newest datapoint in a list with distinct keys.
NewestIn(g) ==
    CHOOSE i \in 1..Len(g) :
        \A j \in 1..Len(g) : _dp_updated_key(g[j]) <= _dp_updated_key(g[i])

Differs(dp, ds) ==
    \/ ~RoundsTo(IF dp.value = None THEN 0 ELSE dp.value, sot_map[ds])
    \/ dp.comment # CanonicalComment(sot_map[ds], ds)

\* The deletes the run sent for datapoints of the list g.
DeletesAmong(g) ==
    {i \in 1..Len(sent) :
        sent[i].op = "delete" /\ \E j \in 1..Len(g) : g[j].id = sent[i].id}

\* The days C3 speaks of: in the SoT mapping, with fetched datapoints whose
\* keys differ pairwise.
C3_Days ==
    {ds \in DOMAIN sot_map : Len(Fetched(ds)) >= 1 /\ DistinctKeys(Fetched(ds))}

\* C3 as stated: for such a day with n datapoints a completed run sent
\* exactly n-1 deletes, one for each datapoint but the newest, none for the
\* newest, and an update of the newest iff its rounded value or its comment
\* differs from the canonical ones.
C3_AsStated ==
    (script = "history" /\ pc = "done") =>
        \A ds \in C3_Days :
            LET g == Fetched(ds)
                k == NewestIn(g)
            IN  /\ Cardinality(DeletesAmong(g)) = Len(g) - 1
                /\ \A j \in 1..Len(g) : j # k => SentFor("delete", g[j].id) = 1
                /\ SentFor("delete", g[k].id) = 0
                /\ (SentFor("update", g[k].id) >= 1) <=> Differs(g[k], ds)

\* C3 amended: for such a day a completed run sent exactly one delete for
\* each datapoint but the newest that has an identifier and no other delete
\* for the day, none for the newest, and an update of the newest iff the
\* newest has an identifier and its rounded value or its comment differs
\* from the canonical ones.
C3_DuplicateCollapse ==
    (script = "history" /\ pc = "done") =>
        \A ds \in C3_Days :
            LET g == Fetched(ds)
                k == NewestIn(g)
                withId == {j \in 1..Len(g) : j # k /\ g[j].id # None}
            IN  /\ Cardinality(DeletesAmong(g)) = Cardinality(withId)
                /\ \A j \in withId : SentFor("delete", g[j].id) = 1
                /\ SentFor("delete", g[k].id) = 0
                /\ SentFor("update", g[k].id) <= 1
                /\ (SentFor("update", g[k].id) = 1)
                      <=> (g[k].id # None /\ Differs(g[k], ds))

\* A completed run over a day with three identified datapoints of pairwise
\* different keys, the newest not first in the list and in need of an update.
C3_Witness ==
    /\ script = "history" /\ pc = "done"
    /\ \E ds \in C3_Days :
          LET g == Fetched(ds)
          IN  /\ Len(g) = 3
              /\ \A j \in 1..3 : g[j].id # None
              /\ NewestIn(g) # 1
              /\ Differs(g[NewestIn(g)], ds)


(***************************************************************************)
(* C4  Duplicate-create rejection.                                         *)
(***************************************************************************)
\* C4: when the remote answers a create with its duplicate rejection, the
\* call returns normally and the run goes on: the run has not failed.
C4_DuplicateReturns ==
    resp = "duplicate" => pc # "failed"

(***************************************************************************)
(* C5  Recovery by re-run.                                                 *)
(***************************************************************************)
\* C5 as stated: a run of reconcile_history that completes after an aborted
\* run with the same SoT mapping leaves the remote converged: exactly one
\* datapoint per SoT daystamp, with the SoT value and the canonical comment.
C5_AsStated ==
    (script = "history" /\ prev = "failed" /\ pc = "done") => ConvergedExactly

\* C5 amended: with dry-run off and every fetched datapoint of a SoT day
\* carrying an identifier, a run that completes after an aborted run leaves
\* exactly one datapoint per SoT daystamp (no duplicate), whose value rounds
\* to the SoT value and whose comment is the canonical comment.
C5_Recovery ==
    (script = "history" /\ prev = "failed" /\ pc = "done" /\ ~DRY_RUN /\ ScopeIdentified)
        => ConvergedRounded

\* A run that completed the work of an aborted one: the aborted run created
\* a datapoint, this run had a delete or an update left to do.
C5_Witness ==
    /\ script = "history" /\ prev = "failed" /\ pc = "done" /\ ~DRY_RUN
    /\ ScopeIdentified
    /\ \E d \in Days : added[d] = 1
    /\ ~Sent("create")
    /\ Sent("delete") \/ Sent("update")

(***************************************************************************)
(* C6  Strict purge.                                                       *)
(***************************************************************************)
\* The calls of the purge step: those after the calls of the SoT days.
PurgePart == SubSeq(calls, Len(ScopeCalls(wf_all, sot_map)) + 1, Len(calls))

\* The purge step deletes no fetched datapoint of a SoT day.
PurgeSparesScope ==
    \A j \in 1..Len(PurgePart) :
        /\ PurgePart[j].op = "delete"
        /\ \A i \in 1..Len(wf_all) :
              wf_all[i].id = PurgePart[j].id => wf_all[i].daystamp \notin DOMAIN sot_map

\* C6 as stated: with STRICT_PURGE, after a completed run no datapoint of a
\* day absent from the SoT mapping is left, and the purge step deleted no
\* datapoint of a day of the mapping.
C6_AsStated ==
    (script = "history" /\ STRICT_PURGE /\ pc = "done") =>
        /\ \A i \in 1..Len(remote) : remote[i].daystamp \in DOMAIN sot_map
        /\ PurgeSparesScope

\* C6 amended: with STRICT_PURGE and dry-run off, after a completed run no
\* datapoint that has an identifier is left on a day absent from the SoT
\* mapping, and the purge step deleted no datapoint of a day of the mapping.
C6_StrictPurge ==
    (script = "history" /\ STRICT_PURGE /\ pc = "done" /\ ~DRY_RUN) =>
        /\ \A i \in 1..Len(remote) :
              remote[i].id # None => remote[i].daystamp \in DOMAIN sot_map
        /\ PurgeSparesScope

\* A completed purge over a list with datapoints inside and outside the SoT
\* mapping.
C6_Witness ==
    /\ script = "history" /\ STRICT_PURGE /\ pc = "done" /\ ~DRY_RUN
    /\ Len(PurgePart) >= 2
    /\ \E i \in 1..Len(wf_all) : wf_all[i].daystamp \in DOMAIN sot_map

(***************************************************************************)
(* C7  Idempotency token.                                                  *)
(***************************************************************************)
\* C7: every create sent carries the token "<goal>-<daystamp>-sot-v1" of the
\* day it is for, and the creates of all runs add at most one datapoint per
\* daystamp, the user deleting datapoints between the runs or not.
C7_Token ==
    /\ \A i \in 1..Len(sent) :
          sent[i].op = "create" =>
              LET d == IF sent[i].daystamp = None THEN Today ELSE sent[i].daystamp
              IN  sent[i].requestid = <<"wakeandfocus", "-", d, "-sot-v1">>
    /\ \A d \in Days : added[d] <= 1

\* A create repeated for a day whose datapoint an earlier run had added: the
\* remote rejected it.
C7_Witness ==
    /\ resp = "duplicate"
    /\ \E d \in Days : added[d] = 1 /\ Len(OnDay(d)) = 0

(***************************************************************************)
(* C8  Qualification rule.                                                 *)
(***************************************************************************)
\* A record bucketed under day d parses and qualifies, in the words of the
\* rule: at least 50 minutes, started at or before 09:15.
QualifyingOn(d) ==
    \E i \in 1..Len(fm_all) :
        LET r == fm_all[i]
            day == IF r.daystamp # None THEN r.daystamp
                   ELSE IF r.timestamp # None THEN (r.timestamp \div TicksPerDay) + 1
                   ELSE None
            c == r.comment
        IN  /\ day = d
            /\ Len(c) = 5
            /\ c[3] \in 0..23 /\ c[5] \in 0..59
            /\ c[1] >= 50
            /\ c[3] < 9 \/ (c[3] = 9 /\ c[5] <= 15)

\* The orderings of a list.
Orderings(s) ==
    { [i \in 1..Len(s) |-> s[p[i]]] :
        p \in {q \in [1..Len(s) -> 1..Len(s)] :
                  \A i, j \in 1..Len(s) : i # j => q[i] # q[j]} }

C9_Boundaries ==
    /\ qt_in = <<9, 15>> => qt_out
    /\ qt_in = <<9, 16>> => ~qt_out
    /\ qt_in = <<6, 0>> => qt_out
    /\ qt_in = <<5, 59>> => ~qt_out

(***************************************************************************)
(* C10  Dry run.                                                           *)
(***************************************************************************)
\* C10: under DRY_RUN no step of a run, of either script, with or without
\* strict purge, changes the remote list or sends a create, update or
\* delete.
C10_DryRun ==
    [][DRY_RUN => (remote' = remote /\ sent' = <<>>)]_vars

\* A dry run of the historical script with strict purge that went through
\* its calls over a remote list that is not empty.
C10_Witness ==
    /\ DRY_RUN /\ STRICT_PURGE /\ pc = "done"
    /\ ip >= 1
    /\ Len(remote) >= 1

(***************************************************************************)
(* C11  Configuration error.                                               *)
(***************************************************************************)
\* C11: when the credential is missing and dry-run is not set, a run that
\* has started has failed (non-zero exit) without a single remote call: no
\* page fetched, no create, update or delete sent, no answer received.
C11_ConfigError ==
    (~AUTH_TOKEN /\ ~DRY_RUN /\ runs >= 1) =>
        /\ pc = "failed"
        /\ gets = 0
        /\ sent = <<>>
        /\ resp = "none"

\* Runs without the credential against a remote list the reconciler would
\* have had calls to make for.
C11_Witness ==
    /\ ~AUTH_TOKEN /\ ~DRY_RUN
    /\ runs = MaxRuns /\ pc = "failed"
    /\ Len(remote) >= 2
    /\ Reconcile(remote) # <<>>

(***************************************************************************)
(* C12  Fatal remote failure.                                              *)
(***************************************************************************)
\* C12: a non-success answer (no duplicate rejection) to a page fetch, a
\* create, an update or a delete ends the run as failed (non-zero exit), and
\* from then on the run sends nothing: no further request, no retry, and the
\* remote list stays as it is until another run starts.
C12_FatalFailure ==
    [][ /\ (resp' = "error" => pc' = "failed")
        /\ ((resp = "error" /\ runs' = runs)
               => (sent' = sent /\ gets' = gets /\ remote' = remote /\ pc' = "failed")) ]_vars

\* A run that failed on its second or later call with calls left to make.
C12_Witness ==
    /\ pc = "failed" /\ resp = "error"
    /\ Len(sent) >= 2
    /\ Len(calls) > Len(sent)

(***************************************************************************)
(* The SoT store: the table "records" and sot_upsert_bulk.                 *)
(*                                                                         *)
(* The connection runs the statements of a "with conn:" block in one       *)
(* transaction: txn is the table as the block has changed it, store the    *)
(* table as committed, which is what any later reader finds.               *)
(***************************************************************************)
\* now_iso_utc(): the time of the call; the rows of earlier runs are older.
now_iso_utc == 1

\* CREATE_SOT_SQL: CHECK(value IN (0,1)).
CheckValue(v) == v \in {0, 1}

\* UPSERT_SOT_SQL on a table: the row of ds is inserted or overwritten.
UPSERT_SOT_SQL(tbl, ds, v, now) ==
    [d \in DOMAIN tbl \cup {ds} |->
        IF d = ds THEN [value |-> v, updated_at |-> now] ELSE tbl[d]]

\* Mutant of ConnExit: the transaction is committed also when the block
\* raises.
ConnExitCommits(committed, pending, raised) == pending

\* The end of a "with conn:" block: commit when the block ends normally,
\* rollback when it raises.
ConnExit(committed, pending, raised) ==
    IF raised THEN committed ELSE pending

\* The mappings given to sot_upsert_bulk; the value 2 is one the table's
\* CHECK rejects.
UpMaps == UNION { [D -> {0, 1, 2}] : D \in SUBSET Days }

\* The tables earlier runs have left.
InitStores ==
    UNION { [D -> {[value |-> v, updated_at |-> 0] : v \in {0, 1}}] : D \in SUBSET Days }

\* sot_upsert_bulk(conn, mapping) is called; mapping.items() runs through
\* the entries in the order the dict holds them.
UpsertBegin ==
    /\ up_pc = "idle"
    /\ \E m \in UpMaps :
          \E o \in Orderings(SortedDays(DOMAIN m)) :
              /\ up_map' = m
              /\ up_todo' = o
    /\ txn' = store
    /\ up_pc' = "loop"
    /\ UNCHANGED store
    /\ UNCHANGED <<reconVars, sotVars, pageVars, pairVars>>

\* conn.execute(UPSERT_SOT_SQL, (ds, int(v), now)) succeeds.
UpsertExecute ==
    /\ up_pc = "loop"
    /\ up_todo # <<>>
    /\ CheckValue(up_map[Head(up_todo)])
    /\ txn' = UPSERT_SOT_SQL(txn, Head(up_todo), up_map[Head(up_todo)], now_iso_utc)
    /\ up_todo' = Tail(up_todo)
    /\ UNCHANGED <<store, up_map, up_pc>>
    /\ UNCHANGED <<reconVars, sotVars, pageVars, pairVars>>

\* conn.execute raises (the CHECK rejects the value, the database is locked,
\* the disk is full): the block is left by the exception.
UpsertRaise ==
    /\ up_pc = "loop"
    /\ up_todo # <<>>
    /\ store' = ConnExit(store, txn, TRUE)
    /\ txn' = store'
    /\ up_pc' = "raised"
    /\ UNCHANGED <<up_map, up_todo>>
    /\ UNCHANGED <<reconVars, sotVars, pageVars, pairVars>>

\* The loop is through and the block ends normally.
UpsertReturn ==
    /\ up_pc = "loop"
    /\ up_todo = <<>>
    /\ store' = ConnExit(store, txn, FALSE)
    /\ txn' = store'
    /\ up_pc' = "returned"
    /\ UNCHANGED <<up_map, up_todo>>
    /\ UNCHANGED <<reconVars, sotVars, pageVars, pairVars>>

\* The loop is through and the commit itself raises: nothing is committed.
UpsertCommitRaise ==
    /\ up_pc = "loop"
    /\ up_todo = <<>>
    /\ txn' = store
    /\ up_pc' = "raised"
    /\ UNCHANGED <<store, up_map, up_todo>>
    /\ UNCHANGED <<reconVars, sotVars, pageVars, pairVars>>

InitStore ==
    /\ PairIdle
    /\ ReconIdle
    /\ SotIdle
    /\ PageIdle
    /\ store \in InitStores
    /\ txn = store
    /\ up_map = <<>>
    /\ up_todo = <<>>
    /\ up_pc = "idle"

NextStore ==
    \/ UpsertBegin
    \/ UpsertExecute
    \/ UpsertRaise
    \/ UpsertReturn
    \/ UpsertCommitRaise

SpecStore == InitStore /\ [][NextStore]_vars

(***************************************************************************)
(* C13  sot_upsert_bulk is all-or-nothing.                                 *)
(***************************************************************************)
\* C13: the committed table changes only in the step in which
\* sot_upsert_bulk returns, and then holds every entry of the mapping (the
\* rows of other days as they were); when the call raises, the committed
\* table is the one from before the call and no entry of the mapping's
\* update is left in the connection's view.
C13_AllOrNothing ==
    [][ /\ (store' # store => up_pc' = "returned")
        /\ (up_pc' = "returned" =>
               /\ \A d \in DOMAIN up_map' :
                     /\ d \in DOMAIN store'
                     /\ store'[d].value = up_map'[d]
               /\ \A d \in DOMAIN store \ DOMAIN up_map' :
                     d \in DOMAIN store' /\ store'[d] = store[d])
        /\ (up_pc' = "raised" => (store' = store /\ txn' = store)) ]_vars

\* A call that raised on its second entry, after the first had changed the
\* row of its day.
C13_Witness ==
    /\ up_pc = "raised"
    /\ Len(up_todo) = 1
    /\ Cardinality(DOMAIN up_map) = 2
    /\ \E d \in DOMAIN up_map :
          /\ d # Head(up_todo)
          /\ d \in DOMAIN store
          /\ store[d].value # up_map[d]

(***************************************************************************)
(* C14  Missing remote identifier.                                         *)
(***************************************************************************)
\* The run broke off on a datapoint without an identifier: its next step
\* was the dp["id"] of an extra or of the keeper, in a list the sort had
\* accepted.
FailedOnMissingId ==
    /\ pc = "failed"
    /\ ip < Len(calls)
    /\ calls[ip + 1] = RaiseCall
    /\ ~MixedKeys(SelectSeq(wf_all, LAMBDA dp : dp.daystamp = Today))

\* C14: in the single-day and in the historical reconciler no delete or
\* update is sent for a datapoint without an identifier, and no run ends in
\* an error because an extra or the keeper has none.
C14_MissingIdSkipped ==
    /\ \A i \in 1..Len(sent) :
          sent[i].op \in {"delete", "update"} => sent[i].id # None
    /\ ~FailedOnMissingId

(***************************************************************************)
(* C15  Full-history range.                                                *)
(***************************************************************************)
\* The day a source record is dated on: its daystamp, else the local day of
\* its timestamp, else none.
RecordDay(r) ==
    IF r.daystamp # None THEN r.daystamp
    ELSE IF r.timestamp # None THEN (r.timestamp \div TicksPerDay) + 1
    ELSE None

\* The days, up to today, the fetched source records are dated on.
DatedDays == {d \in {RecordDay(fm_all[i]) : i \in 1..Len(fm_all)} : d # None /\ d <= Today}

\* C15: in full-history mode the SoT mapping covers the days from the
\* earliest day a fetched source record is dated on, by daystamp or by
\* timestamp, through today, so the day of every such record is a key of
\* the mapping.
C15_FullHistoryRange ==
    (script = "history" /\ FULL_HISTORY /\ sot_out # <<>>) =>
        /\ \A d \in DatedDays : d \in DOMAIN sot_out
        /\ DatedDays # {} => DOMAIN sot_out = Min(DatedDays)..Today

(***************************************************************************)
(* C16  Full-history range without source records.                         *)
(***************************************************************************)
\* C16: in full-history mode with no source record fetched the SoT mapping
\* has the single key today, with the value 0.
C16_EmptyHistory ==
    (script = "history" /\ FULL_HISTORY /\ fm_all = <<>> /\ sot_out # <<>>) =>
        /\ DOMAIN sot_out = {Today}
        /\ sot_out[Today] = 0

\* The mapping computed in full-history mode from an empty fetch, with days
\* before today there to be had.
C16_Witness ==
    /\ script = "history" /\ FULL_HISTORY
    /\ fm_all = <<>>
    /\ sot_out # <<>>
    /\ Today > 1

(***************************************************************************)
(* C17  Single combined update.                                            *)
(***************************************************************************)
\* The day of the fetched datapoint a sent update or delete is for.
TargetDay(c) ==
    LET j == CHOOSE j \in 1..Len(wf_all) : wf_all[j].id = c.id
    IN  wf_all[j].daystamp

\* The places in sent of the updates for day d.
UpdatesOf(d) ==
    {i \in 1..Len(sent) : sent[i].op = "update" /\ TargetDay(sent[i]) = d}

\* C17: a run, of either script, sends at most one update per daystamp; the
\* update is for a datapoint whose rounded value or comment differs from the
\* SoT value or the canonical comment, and it carries both the SoT value and
\* the canonical comment.
C17_CombinedUpdate ==
    \A d \in Days :
        /\ Cardinality(UpdatesOf(d)) <= 1
        /\ \A i \in UpdatesOf(d) :
              /\ d \in DOMAIN sot_map
              /\ \E j \in 1..Len(wf_all) :
                    wf_all[j].id = sent[i].id /\ Differs(wf_all[j], d)
              /\ sent[i].value = 10 * sot_map[d]
              /\ sent[i].comment = CanonicalComment(sot_map[d], d)

\* A completed run of the single-day script that deleted an extra and then
\* updated a keeper whose value was the SoT value and whose comment was not
\* the canonical one.
C17_Witness ==
    /\ script = "single" /\ pc = "done"
    /\ Sent("delete")
    /\ \E i \in 1..Len(sent) :
          /\ sent[i].op = "update"
          /\ \E j \in 1..Len(wf_all) :
                /\ wf_all[j].id = sent[i].id
                /\ wf_all[j].value = 10 * sot_map[Today]
                /\ wf_all[j].comment # CanonicalComment(sot_map[Today], Today)

(***************************************************************************)
(* fetch_all_datapoints, page by page, against a goal whose records do not *)
(* change during the fetch.  A record is known by its number; the remote   *)
(* lists the newest first (sort=desc).                                     *)
(***************************************************************************)
MaxRecords == 201

\* The remote's answer to "page=p, per_page=n": the p-th slice of the list.
PageOf(dps, p, n) ==
    SubSeq(dps, (p - 1) * n + 1, IF p * n < Len(dps) THEN p * n ELSE Len(dps))

\* Mutant of ShortPage: a full page ends the loop as well.
ShortPageOrFull(b) == Len(b) <= per_page

\* "if len(batch) < per_page: break"
ShortPage(b) == Len(b) < per_page

\* fetch_all_datapoints is called with the credential set and DRY_RUN off.
FetchAllBegin ==
    /\ pg_pc = "idle"
    /\ ~_need_auth
    /\ ~DRY_RUN
    /\ page' = 1
    /\ results' = <<>>
    /\ pg_pc' = "loop"
    /\ UNCHANGED <<goal_dps, requested, batch>>
    /\ UNCHANGED <<reconVars, sotVars, storeVars, pairVars>>

\* fetch_all_datapoints is called under DRY_RUN: it returns [] at once.
FetchAllDry ==
    /\ pg_pc = "idle"
    /\ ~_need_auth
    /\ DRY_RUN
    /\ results' = <<>>
    /\ pg_pc' = "returned"
    /\ UNCHANGED <<goal_dps, page, requested, batch>>
    /\ UNCHANGED <<reconVars, sotVars, storeVars, pairVars>>

\* One turn of "while True": the GET of the page succeeds.
FetchPage ==
    /\ pg_pc = "loop"
    /\ requested' = Append(requested, page)
    /\ batch' = PageOf(goal_dps, page, per_page)
    /\ IF batch' = <<>>
       THEN /\ results' = results
            /\ page' = page
            /\ pg_pc' = "returned"
       ELSE /\ results' = results \o batch'
            /\ IF ShortPage(batch')
               THEN page' = page /\ pg_pc' = "returned"
               ELSE page' = page + 1 /\ pg_pc' = "loop"
    /\ UNCHANGED goal_dps
    /\ UNCHANGED <<reconVars, sotVars, storeVars, pairVars>>

\* One turn of "while True": the GET of the page gets a non-success answer.
FetchPageFail ==
    /\ pg_pc = "loop"
    /\ requested' = Append(requested, page)
    /\ pg_pc' = "raised"
    /\ UNCHANGED <<goal_dps, page, results, batch>>
    /\ UNCHANGED <<reconVars, sotVars, storeVars, pairVars>>

\* A goal of n records, numbered by age, newest first.
GoalOf(n) == [i \in 1..n |-> n + 1 - i]

InitPage ==
    /\ PairIdle
    /\ remote = <<>>
    /\ seen = {}
    /\ nextId = 1
    /\ added = [d \in Days |-> 0]
    /\ AUTH_TOKEN = TRUE
    /\ DRY_RUN \in BOOLEAN
    /\ STRICT_PURGE = FALSE
    /\ script = "history"
    /\ sot_map = [d \in Days |-> 0]
    /\ pc = "idle"
    /\ wf_all = <<>>
    /\ calls = <<>>
    /\ ip = 0
    /\ gets = 0
    /\ sent = <<>>
    /\ resp = "none"
    /\ runs = 0
    /\ prev = "none"
    /\ SotIdle
    /\ StoreIdle
    /\ goal_dps \in {GoalOf(n) : n \in 0..MaxRecords}
    /\ page = 1
    /\ results = <<>>
    /\ requested = <<>>
    /\ batch = <<>>
    /\ pg_pc = "idle"

NextPage ==
    \/ FetchAllBegin
    \/ FetchAllDry
    \/ FetchPage
    \/ FetchPageFail

\* The process keeps running: a call under way takes its next step.
SpecPage == InitPage /\ [][NextPage]_vars /\ WF_vars(NextPage)

(***************************************************************************)
(* C18  Pagination.                                                        *)
(***************************************************************************)
\* The pages 1, 2, ... were requested in order.
RequestedInOrder == \A i \in 1..Len(requested) : requested[i] = i

\* The loop stopped after an empty or a short page, every page before it
\* full.
StoppedOnShortPage ==
    /\ requested # <<>>
    /\ Len(batch) < 100
    /\ Len(results) = (Len(requested) - 1) * 100 + Len(batch)

\* C18 as stated: the fetch requests the pages in order and no more of them
\* than the goal has pages, plus the one that ends the loop; a fetch that
\* returns has stopped after an empty or short page and returns every
\* record of the goal exactly once.
C18_AsStated ==
    /\ RequestedInOrder
    /\ Len(requested) <= Len(goal_dps) \div 100 + 1
    /\ pg_pc = "returned" => (StoppedOnShortPage /\ results = goal_dps)

\* C18 amended: with dry-run off, the fetch requests the pages in order, a
\* fetch that returns has stopped after an empty or short page and returns
\* every record of the goal exactly once; every fetch terminates.
C18_Pagination ==
    /\ [](RequestedInOrder
          /\ ((pg_pc = "returned" /\ ~DRY_RUN) => (StoppedOnShortPage /\ results = goal_dps)))
    /\ <>(pg_pc \in {"returned", "raised"})

\* A fetch of a goal of exactly two full pages: it returned after a third,
\* empty page.
C18_Witness ==
    /\ pg_pc = "returned" /\ ~DRY_RUN
    /\ Len(goal_dps) = 200
    /\ requested = <<1, 2, 3>>
    /\ batch = <<>>

(***************************************************************************)
(* Runs of the historical reconciler over datapoints whose recency key     *)
(* comes from any of its three sources.                                    *)
(***************************************************************************)
\* The datapoints the i-th place of the list can hold: converged on 0, with
\* or without an updated_at that parses, with or without a timestamp.
KeyDps(i) ==
    { [id |-> i, daystamp |-> d, value |-> 0, comment |-> CommentOk(0, d),
       updated_at |-> u,
       timestamp |-> IF t = None THEN None ELSE TsOfDay(d) + t] :
         d \in Days,
         u \in {None, Unparseable, 1, MaxKey},
         t \in {None, 0, 1} }

RECURSIVE KeyRemotesOfLen(_)
KeyRemotesOfLen(n) ==
    IF n = 0 THEN {<<>>}
    ELSE {Append(r, dp) : r \in KeyRemotesOfLen(n - 1), dp \in KeyDps(n)}

InitKey ==
    /\ PairIdle
    /\ remote \in UNION {KeyRemotesOfLen(n) : n \in 0..MaxDps}
    /\ seen = {}
    /\ nextId = MaxDps + 1
    /\ added = [d \in Days |-> 0]
    /\ AUTH_TOKEN = TRUE
    /\ DRY_RUN = FALSE
    /\ STRICT_PURGE = FALSE
    /\ script = "history"
    /\ sot_map \in SotMaps
    /\ pc = "idle"
    /\ wf_all = <<>>
    /\ calls = <<>>
    /\ ip = 0
    /\ gets = 0
    /\ sent = <<>>
    /\ resp = "none"
    /\ runs = 0
    /\ prev = "none"
    /\ SotIdle
    /\ StoreIdle
    /\ PageIdle

NextKey ==
    \/ Fetch
    \/ FetchFail
    \/ CallCreate
    \/ CallDelete
    \/ CallUpdate
    \/ CallFail
    \/ Finish

SpecKey == InitKey /\ [][NextKey]_vars

(***************************************************************************)
(* C19  Keeper selection.                                                  *)
(***************************************************************************)
\* The recency key in the words of the claim: the updated-at time when
\* there is one and it parses, else the timestamp, else zero.
RecencyKey(dp) ==
    IF dp.updated_at \notin {None, Unparseable} THEN dp.updated_at
    ELSE IF dp.timestamp # None THEN dp.timestamp
    ELSE 0

\* The first place in the list g, in fetch order, that holds the maximal key.
FirstNewest(g) ==
    CHOOSE k \in 1..Len(g) :
        /\ \A j \in 1..Len(g) : RecencyKey(g[j]) <= RecencyKey(g[k])
        /\ \A j \in 1..(k - 1) : RecencyKey(g[j]) < RecencyKey(g[k])

\* The identifiers the calls of kind op of the run's plan are for.
PlannedFor(op) == {calls[i].id : i \in {j \in 1..Len(calls) : calls[j].op = op}}

\* C19: for every SoT day with fetched datapoints, the datapoint the run
\* keeps (it plans no delete for it, it deletes all others of the day, and
\* an update of the day is for it) is the first in fetch order among those
\* with the maximal recency key.
C19_KeeperSelection ==
    pc # "idle" =>
        \A ds \in DOMAIN sot_map :
            LET g == Fetched(ds)
            IN  g # <<>> =>
                  LET k == FirstNewest(g)
                  IN  /\ SortedByUpdatedKey(g)[1] = g[k]
                      /\ g[k].id \notin PlannedFor("delete")
                      /\ \A j \in 1..Len(g) : j # k => g[j].id \in PlannedFor("delete")
                      /\ \A j \in 1..Len(g) : g[j].id \in PlannedFor("update") => j = k

\* A run over a day with three datapoints: the first older, the second and
\* third sharing the maximal key, one by its updated_at and one by its
\* timestamp; the run went through its deletes and its update.
C19_Witness ==
    /\ pc = "done"
    /\ Sent("update")
    /\ \E ds \in DOMAIN sot_map :
          LET g == Fetched(ds)
          IN  /\ Len(g) = 3
              /\ FirstNewest(g) = 2
              /\ RecencyKey(g[3]) = RecencyKey(g[2])
              /\ g[2].updated_at = Unparseable
              /\ g[3].updated_at \notin {None, Unparseable}
              /\ SentFor("delete", g[3].id) = 1
              /\ SentFor("delete", g[1].id) = 1

(***************************************************************************)
(* C20  Purge is opt-in and last.                                          *)
(***************************************************************************)
\* The daystamp a sent call is about: the day a create is for, the day of
\* the fetched datapoint an update or delete is for.
CallDay(c) ==
    IF c.op = "create"
    THEN (IF c.daystamp = None THEN Today ELSE c.daystamp)
    ELSE TargetDay(c)

InScope(c) == CallDay(c) \in DOMAIN sot_map

\* C20: without STRICT_PURGE no run sends a create, update or delete about
\* a daystamp that is not in the SoT mapping; with it, the calls about such
\* daystamps are deletes and every one of them is sent after all the calls
\* about the days of the mapping.
C20_PurgeOptInLast ==
    /\ ~STRICT_PURGE => \A i \in 1..Len(sent) : InScope(sent[i])
    /\ STRICT_PURGE =>
          \A i \in 1..Len(sent) :
              ~InScope(sent[i]) =>
                  /\ sent[i].op = "delete"
                  /\ \A j \in (i + 1)..Len(sent) : ~InScope(sent[j])

\* A completed run with STRICT_PURGE that sent a create or an update for a
\* day of the mapping and then two purge deletes.
C20_Witness ==
    /\ STRICT_PURGE /\ pc = "done"
    /\ Len(sent) >= 3
    /\ InScope(sent[1]) /\ sent[1].op \in {"create", "update"}
    /\ ~InScope(sent[Len(sent) - 1])
    /\ ~InScope(sent[Len(sent)])

(***************************************************************************)
(* main, from the upsert of the SoT mapping on: the mapping is written to  *)
(* the store, then the target goal is fetched and reconciled.              *)
(***************************************************************************)
\* The table after the upserts of the entries todo of a mapping.
RECURSIVE UpsertAll(_, _, _)
UpsertAll(tbl, mapping, todo) ==
    IF todo = <<>> THEN tbl
    ELSE UpsertAll(UPSERT_SOT_SQL(tbl, Head(todo), mapping[Head(todo)], now_iso_utc),
                   mapping, Tail(todo))

\* Mutant of sot_upsert_bulk: the upserts are never committed.
sot_upsert_bulkNoCommit(tbl, mapping) == tbl

\* The committed table after sot_upsert_bulk(conn, mapping) has returned
\* (after sot_set(conn, daystamp, outcome) in the single-day script, whose
\* mapping has the one key today).
sot_upsert_bulk(tbl, mapping) ==
    UpsertAll(tbl, mapping, SortedDays(DOMAIN mapping))

\* A run starts: the SoT mapping is written to the store, and the fetch of
\* the target goal succeeds.
MainFetch ==
    /\ FetchStep
    /\ store' = sot_upsert_bulk(store, sot_map)
    /\ txn' = store'
    /\ up_map' = sot_map
    /\ up_pc' = "returned"
    /\ UNCHANGED up_todo
    /\ UNCHANGED <<sotVars, pageVars, pairVars>>

\* A run starts: the SoT mapping is written to the store, and the fetch of
\* the target goal gets a non-success response.
MainFetchFail ==
    /\ FetchFailStep
    /\ store' = sot_upsert_bulk(store, sot_map)
    /\ txn' = store'
    /\ up_map' = sot_map
    /\ up_pc' = "returned"
    /\ UNCHANGED up_todo
    /\ UNCHANGED <<sotVars, pageVars, pairVars>>

\* A run starts and the write to the store raises: main exits 1 before it
\* calls the reconciler.
MainUpsertRaise ==
    /\ pc \in {"idle", "done", "failed"}
    /\ runs < MaxRuns
    /\ ~_need_auth
    /\ runs' = runs + 1
    /\ prev' = IF pc = "idle" THEN "none" ELSE pc
    /\ wf_all' = <<>>
    /\ calls' = <<>>
    /\ pc' = "failed"
    /\ ip' = 0
    /\ gets' = 0
    /\ sent' = <<>>
    /\ resp' = "none"
    /\ up_map' = sot_map
    /\ up_pc' = "raised"
    /\ UNCHANGED <<store, txn, up_todo>>
    /\ UNCHANGED <<remote, seen, nextId, added, AUTH_TOKEN, DRY_RUN, STRICT_PURGE, script, sot_map>>
    /\ UNCHANGED <<sotVars, pageVars, pairVars>>

MaxMainDps == 2

InitMain ==
    /\ PairIdle
    /\ InitRecon
    /\ Len(remote) <= MaxMainDps
    /\ SotIdle
    /\ PageIdle
    /\ store \in InitStores
    /\ txn = store
    /\ up_map = <<>>
    /\ up_todo = <<>>
    /\ up_pc = "idle"

NextMain ==
    \/ MainFetch
    \/ MainFetchFail
    \/ MainUpsertRaise
    \/ ConfigError
    \/ CallCreate
    \/ CallDelete
    \/ CallUpdate
    \/ CallFail
    \/ CallRaise
    \/ Finish

SpecMain == InitMain /\ [][NextMain]_vars

(***************************************************************************)
(* C21  SoT is persisted before the remote is touched.                     *)
(***************************************************************************)
\* C21: in every state of a run, a create or update sent to the target goal
\* carries the value 0 or 1, and the store holds that value under the
\* daystamp the call is for.
C21_PersistedFirst ==
    \A i \in 1..Len(sent) :
        sent[i].op \in {"create", "update"} =>
            /\ sent[i].value \in {0, 10}
            /\ CallDay(sent[i]) \in DOMAIN store
            /\ 10 * store[CallDay(sent[i])].value = sent[i].value

\* A completed run over a store that earlier runs had left: it sent a create
\* for one day and an update carrying 1 for another, and the store holds
\* both days.
C21_Witness ==
    /\ pc = "done"
    /\ up_pc = "returned"
    /\ \E i, j \in 1..Len(sent) :
          /\ sent[i].op = "create"
          /\ sent[j].op = "update" /\ sent[j].value = 10
          /\ CallDay(sent[i]) # CallDay(sent[j])
          /\ {CallDay(sent[i]), CallDay(sent[j])} \subseteq DOMAIN store

(***************************************************************************)
(* Two runs at once on the same goal: the same script, the same            *)
(* environment and SoT mapping, their requests interleaved in any order.   *)
(* Each process fetches the goal, then makes the calls of its reconciler.  *)
(***************************************************************************)
ProcCalls(p) == procs[p].pc = "calls" /\ procs[p].ip < Len(procs[p].calls)
ProcNext(p) == procs[p].calls[procs[p].ip + 1]

\* add_datapoint puts the token into the request only "if requestid:"; the
\* remote refuses a token it has seen.
TokenFresh(c) == c.requestid = <<>> \/ c.requestid \notin seen

\* Process p starts: its fetch of the target goal succeeds.
ProcFetch(p) ==
    /\ procs[p].pc = "idle"
    /\ LET wf == IF script = "history" THEN fetch_all_datapoints(remote)
                 ELSE get_datapoints_for_goal(remote)
       IN  procs' = [procs EXCEPT ![p] = [pc |-> "calls", wf_all |-> wf,
                                          calls |-> Reconcile(wf), ip |-> 0]]
    /\ UNCHANGED reconVars
    /\ UNCHANGED <<sotVars, storeVars, pageVars>>

\* Process p starts and its fetch gets a non-success response.
ProcFetchFail(p) ==
    /\ procs[p].pc = "idle"
    /\ procs' = [procs EXCEPT ![p].pc = "failed"]
    /\ UNCHANGED reconVars
    /\ UNCHANGED <<sotVars, storeVars, pageVars>>

\* add_datapoint of process p returns.
ProcCreate(p) ==
    /\ ProcCalls(p)
    /\ ProcNext(p).op = "create"
    /\ TokenFresh(ProcNext(p))
    /\ remote' = add_datapoint(ProcNext(p))
    /\ seen' = IF ProcNext(p).requestid = <<>> THEN seen
               ELSE seen \cup {ProcNext(p).requestid}
    /\ nextId' = nextId + 1
    /\ added' = [added EXCEPT ![NewDp(ProcNext(p)).daystamp] = @ + 1]
    /\ procs' = [procs EXCEPT ![p].ip = @ + 1]
    /\ UNCHANGED <<AUTH_TOKEN, DRY_RUN, STRICT_PURGE, script, sot_map, pc, wf_all, calls,
                   ip, gets, sent, resp, runs, prev>>
    /\ UNCHANGED <<sotVars, storeVars, pageVars>>

\* The remote refuses the create of process p, whose token it has seen:
\* add_datapoint raises, main exits 1.
ProcCreateDuplicate(p) ==
    /\ ProcCalls(p)
    /\ ProcNext(p).op = "create"
    /\ ~TokenFresh(ProcNext(p))
    /\ procs' = [procs EXCEPT ![p].pc = "failed"]
    /\ UNCHANGED reconVars
    /\ UNCHANGED <<sotVars, storeVars, pageVars>>

\* delete_datapoint of process p returns.
ProcDelete(p) ==
    /\ ProcCalls(p)
    /\ ProcNext(p).op = "delete"
    /\ \E i \in 1..Len(remote) : remote[i].id = ProcNext(p).id
    /\ remote' = delete_datapoint(ProcNext(p))
    /\ procs' = [procs EXCEPT ![p].ip = @ + 1]
    /\ UNCHANGED <<seen, nextId, added, AUTH_TOKEN, DRY_RUN, STRICT_PURGE, script,
                   sot_map, pc, wf_all, calls, ip, gets, sent, resp, runs, prev>>
    /\ UNCHANGED <<sotVars, storeVars, pageVars>>

\* update_datapoint of process p returns.
ProcUpdate(p) ==
    /\ ProcCalls(p)
    /\ ProcNext(p).op = "update"
    /\ \E i \in 1..Len(remote) : remote[i].id = ProcNext(p).id
    /\ remote' = update_datapoint(ProcNext(p))
    /\ procs' = [procs EXCEPT ![p].ip = @ + 1]
    /\ UNCHANGED <<seen, nextId, added, AUTH_TOKEN, DRY_RUN, STRICT_PURGE, script,
                   sot_map, pc, wf_all, calls, ip, gets, sent, resp, runs, prev>>
    /\ UNCHANGED <<sotVars, storeVars, pageVars>>

\* The remote answers a create, update or delete of process p with a
\* non-success status (the datapoint is gone, or any other error):
\* raise_for_status raises, main exits 1.
ProcFail(p) ==
    /\ ProcCalls(p)
    /\ ProcNext(p).op \in {"create", "update", "delete"}
    /\ procs' = [procs EXCEPT ![p].pc = "failed"]
    /\ UNCHANGED reconVars
    /\ UNCHANGED <<sotVars, storeVars, pageVars>>

\* The single-day script raises before a request: main exits 1.
ProcRaise(p) ==
    /\ ProcCalls(p)
    /\ ProcNext(p).op = "raise"
    /\ procs' = [procs EXCEPT ![p].pc = "failed"]
    /\ UNCHANGED reconVars
    /\ UNCHANGED <<sotVars, storeVars, pageVars>>

\* The reconciler of process p returns.
ProcFinish(p) ==
    /\ procs[p].pc = "calls"
    /\ procs[p].ip = Len(procs[p].calls)
    /\ procs' = [procs EXCEPT ![p].pc = "done"]
    /\ UNCHANGED reconVars
    /\ UNCHANGED <<sotVars, storeVars, pageVars>>

MaxPairDps == 3

InitPair ==
    /\ InitRecon
    /\ Len(remote) <= MaxPairDps
    /\ AUTH_TOKEN = TRUE
    /\ DRY_RUN = FALSE
    /\ SotIdle
    /\ StoreIdle
    /\ PageIdle
    /\ PairIdle

NextPair ==
    \/ \E p \in Procs : ProcFetch(p)
    \/ \E p \in Procs : ProcFetchFail(p)
    \/ \E p \in Procs : ProcCreate(p)
    \/ \E p \in Procs : ProcCreateDuplicate(p)
    \/ \E p \in Procs : ProcDelete(p)
    \/ \E p \in Procs : ProcUpdate(p)
    \/ \E p \in Procs : ProcFail(p)
    \/ \E p \in Procs : ProcRaise(p)
    \/ \E p \in Procs : ProcFinish(p)

SpecPair == InitPair /\ [][NextPair]_vars

(***************************************************************************)
(* C22  Interleaved runs.                                                  *)
(***************************************************************************)
\* Both processes are through: done or failed.
BothEnded == \A p \in Procs : procs[p].pc \in {"done", "failed"}

\* The days for which both processes planned a create.
BothCreate ==
    {d \in Days : \A p \in Procs :
        \E i \in 1..Len(procs[p].calls) :
            procs[p].calls[i].op = "create" /\ CallDay(procs[p].calls[i]) = d}

\* The days with a datapoint that both processes planned to delete.
BothDelete ==
    {d \in Days : \E k \in 1..Len(procs[1].wf_all) :
        /\ procs[1].wf_all[k].daystamp = d
        /\ \A p \in Procs :
              \E i \in 1..Len(procs[p].calls) :
                  /\ procs[p].calls[i].op = "delete"
                  /\ procs[p].calls[i].id = procs[1].wf_all[k].id}

\* C22: when two runs with the same SoT mapping interleave, the remote
\* never holds two datapoints that these runs created for one daystamp, and
\* no step empties a SoT daystamp that held a datapoint.
C22_InterleavedRuns ==
    /\ [](\A d \in Days : added[d] <= 1)
    /\ [][\A d \in DOMAIN sot_map : OnDay(d) # <<>> => OnDay(d)' # <<>>]_vars

\* Both runs are through; for one day both had planned the create, one made
\* it and the other was refused; on another day both had planned to delete
\* the same duplicate, and its keeper is still there.
C22_Witness ==
    /\ BothEnded
    /\ \E d \in BothCreate : added[d] = 1 /\ Len(OnDay(d)) = 1
    /\ \E d \in BothDelete \cap DOMAIN sot_map : Len(OnDay(d)) = 1

=============================================================================
